---- MODULE Spec2Model ----
(***************************************************************************)
(* PyGetVerse (src/main.py): the reference parser, the verse composer and  *)
(* the clipboard hand-off controller of QuranPasterApp, as a state machine.*)
(*                                                                         *)
(* Python strings are sequences of one-character strings, so that          *)
(* str.replace, str.split, str.strip, int() and the f-string formatting    *)
(* of integers are computed character by character.                        *)
(***************************************************************************)
EXTENDS Integers, Sequences, FiniteSets, TLC

\* ------------------------------------------------------------------ bounds
\* Longest raw (unstructured) input string the parser is tried on.
MaxRawLen == 4
\* Largest chapter / verse number of the structured references.
MaxNum == 4
\* Largest verse number of the chapter files the composer is tried on.
MaxVerse == 3

\* ------------------------------------------------------- string primitives
\* The characters str.strip() and int() treat as white space (those of the
\* modelled alphabet).
WS == {" ", "\n"}

DigitVal ==
    [c \in {"0", "1", "2", "3", "4", "5", "6", "7", "8", "9"} |->
        CASE c = "0" -> 0 [] c = "1" -> 1 [] c = "2" -> 2 [] c = "3" -> 3
          [] c = "4" -> 4 [] c = "5" -> 5 [] c = "6" -> 6 [] c = "7" -> 7
          [] c = "8" -> 8 [] c = "9" -> 9]

DigitChar == <<"0", "1", "2", "3", "4", "5", "6", "7", "8", "9">>

\* s.replace(c, ""): every occurrence of c removed.
RemoveChar(s, c) == SelectSeq(s, LAMBDA x : x # c)

\* s.replace(a, b) for single characters a, b.
ReplaceChar(s, a, b) == [i \in 1..Len(s) |-> IF s[i] = a THEN b ELSE s[i]]

\* c in s
Contains(s, c) == \E i \in 1..Len(s) : s[i] = c

\* s.split(c, 1) when c occurs in s: the text before and after its first
\* occurrence.
SplitFirst(s, c) ==
    LET i == CHOOSE k \in 1..Len(s) : s[k] = c /\ \A j \in 1..(k - 1) : s[j] # c
    IN  <<SubSeq(s, 1, i - 1), SubSeq(s, i + 1, Len(s))>>

RECURSIVE LStrip(_)
LStrip(s) == IF s # <<>> /\ Head(s) \in WS THEN LStrip(Tail(s)) ELSE s

RECURSIVE RStrip(_)
RStrip(s) ==
    IF s # <<>> /\ s[Len(s)] \in WS THEN RStrip(SubSeq(s, 1, Len(s) - 1)) ELSE s

\* s.strip()
Strip(s) == RStrip(LStrip(s))

\* sep.join(parts)
RECURSIVE Join(_, _)
Join(parts, sep) ==
    IF parts = <<>> THEN <<>>
    ELSE IF Len(parts) = 1 THEN parts[1]
    ELSE parts[1] \o sep \o Join(Tail(parts), sep)

RECURSIVE DigitsValue(_)
DigitsValue(s) ==
    IF s = <<>> THEN 0
    ELSE 10 * DigitsValue(SubSeq(s, 1, Len(s) - 1)) + DigitVal[s[Len(s)]]

\* int(s): white space around the literal is dropped, one sign is accepted,
\* then one or more decimal digits; anything else raises ValueError
\* (ok = FALSE).
int(s) ==
    LET t    == Strip(s)
        sgn  == t # <<>> /\ Head(t) \in {"+", "-"}
        body == IF sgn THEN Tail(t) ELSE t
    IN  IF body # <<>> /\ \A i \in 1..Len(body) : body[i] \in DOMAIN DigitVal
        THEN [ok |-> TRUE,
              val |-> IF sgn /\ Head(t) = "-" THEN 0 - DigitsValue(body)
                      ELSE DigitsValue(body)]
        ELSE [ok |-> FALSE, val |-> 0]

\* str(n), as the f-strings format an integer: decimal, no leading zeros.
RECURSIVE NatStr(_)
NatStr(n) ==
    IF n < 10 THEN <<DigitChar[n + 1]>>
    ELSE NatStr(n \div 10) \o <<DigitChar[(n % 10) + 1]>>

str(n) == IF n < 0 THEN <<"-">> \o NatStr(0 - n) ELSE NatStr(n)

\* -------------------------------------------------------- _parse_reference
\* The value of a call: the returned triple, or the ValueError raised.
\* err names the message: "guidance_range" and "guidance_single" are the two
\* "Please enter chapter:verse like ..." texts, "cross_chapter" and
\* "range_order" the two range messages, "invalid_literal" the message of a
\* failed int(), "unpack" the message of a failed tuple unpacking.
Return(ch, sv, ev) ==
    [ok |-> TRUE, err |-> "", chapter |-> ch, start_verse |-> sv, end_verse |-> ev]

Raise(e) ==
    [ok |-> FALSE, err |-> e, chapter |-> 0, start_verse |-> 0, end_verse |-> 0]

\* Mutant: the "." separator is not rewritten.
NormalizeSeparatorsOff(s) == s

\* s = s.replace(".", ":")
NormalizeSeparators(s) == ReplaceChar(s, ".", ":")

\* Mutant: the chapter of the right side is not compared with the left.
CheckRangeNoCross(l_ch, l_vs, r_has_ch, r_ch_given, r_vs) ==
    IF r_vs < l_vs THEN Raise("range_order") ELSE Return(l_ch, l_vs, r_vs)

\* The checks on the parsed numbers of a range; r_has_ch tells whether the
\* right side named a chapter (r_ch is None otherwise).
CheckRange(l_ch, l_vs, r_has_ch, r_ch_given, r_vs) ==
    LET r_ch == IF r_has_ch THEN r_ch_given ELSE l_ch
    IN  IF r_ch # l_ch THEN Raise("cross_chapter")
        ELSE IF r_vs < l_vs THEN Raise("range_order")
        ELSE Return(l_ch, l_vs, r_vs)

ParseRange(s) ==
    LET lr       == SplitFirst(s, "-")
        left     == lr[1]
        right    == lr[2]
        r_has_ch == Contains(right, ":")
        rp       == SplitFirst(right, ":")
        r_ch     == int(rp[1])
        r_vs     == IF r_has_ch THEN int(rp[2]) ELSE int(right)
        lp       == SplitFirst(left, ":")
        l_ch     == int(lp[1])
        l_vs     == int(lp[2])
    IN  IF r_has_ch /\ ~r_ch.ok THEN Raise("invalid_literal")
        ELSE IF ~r_vs.ok THEN Raise("invalid_literal")
        ELSE IF ~Contains(left, ":") THEN Raise("unpack")
        ELSE IF ~l_ch.ok \/ ~l_vs.ok THEN Raise("invalid_literal")
        ELSE CheckRange(l_ch.val, l_vs.val, r_has_ch, r_ch.val, r_vs.val)

ParseSingle(s) ==
    IF ~Contains(s, ":") THEN Raise("guidance_single")
    ELSE LET p  == SplitFirst(s, ":")
             ch == int(p[1])
             vs == int(p[2])
         IN  IF ~ch.ok \/ ~vs.ok THEN Raise("invalid_literal")
             ELSE Return(ch.val, vs.val, vs.val)

_parse_reference(ref) ==
    LET s0 == RemoveChar(ref, " ")
    IN  IF s0 = <<>> THEN Raise("guidance_range")
        ELSE LET s == NormalizeSeparators(s0)
             IN  IF Contains(s, "-") THEN ParseRange(s) ELSE ParseSingle(s)

\* ------------------------------------------------------------- verse store
\* VERSES_DIR: for each chapter number, the file <chapter>.json.  A file is
\* "missing", "corrupt" (json.load raises) or "ok" with its list of records;
\* a record has the keys the code reads: verse_key, sura, ayah, arabic,
\* tamil_pj (an empty text stands for an absent, null or empty field).
Item(c, v, a, t) ==
    [verse_key |-> str(c) \o <<":">> \o str(v), sura |-> c, ayah |-> v,
     arabic |-> a, tamil_pj |-> t]

MissingFile == [state |-> "missing", data |-> <<>>]

CorruptFile == [state |-> "corrupt", data |-> <<>>]

VerseFile(dir, chapter) ==
    IF chapter \in DOMAIN dir THEN dir[chapter] ELSE MissingFile

\* The label of the citation suffix, one token.
Label == <<"AlQuran">>

\* The value of a composition: the text, or the exception raised
\* ("FileNotFoundError", "KeyError" with its key, or "Exception" for any
\* other error).
Composed(t) == [ok |-> TRUE, err |-> "", key |-> <<>>, text |-> t]

ComposeRaise(e, k) == [ok |-> FALSE, err |-> e, key |-> k, text |-> <<>>]

\* Mutant: the suffix without its leading blank.
SuffixUnspaced(ref) == <<"(">> \o Label \o <<":", " ">> \o ref \o <<")">>

\* f" (<label>: {ref})"
Suffix(ref) == <<" ", "(">> \o Label \o <<":", " ">> \o ref \o <<")">>

_get_verse_text(dir, chapter, verse, use_arabic, use_tamil) ==
    LET file    == VerseFile(dir, chapter)
        data    == file.data
        needle  == str(chapter) \o <<":">> \o str(verse)
        hits    == {i \in 1..Len(data) : data[i].verse_key = needle}
        match   == data[CHOOSE i \in hits : \A j \in hits : i <= j]
        arabic  == Strip(match.arabic)
        tamil   == Strip(match.tamil_pj)
        lines   == (IF use_arabic /\ arabic # <<>> THEN <<arabic>> ELSE <<>>)
                   \o (IF use_tamil /\ tamil # <<>> THEN <<tamil>> ELSE <<>>)
        body    == Strip(Join(lines, <<"\n">>))
    IN  IF file.state = "missing" THEN ComposeRaise("FileNotFoundError", <<>>)
        ELSE IF file.state = "corrupt" THEN ComposeRaise("Exception", <<>>)
        ELSE IF hits = {} THEN ComposeRaise("KeyError", needle)
        ELSE IF body # <<>> THEN Composed(body \o Suffix(needle))
        ELSE Composed(Suffix(needle))

\* verse_map: the records of the chapter with an integer ayah, by ayah; a
\* later record replaces an earlier one of the same ayah.
VerseMapHas(data, chapter, v) ==
    \E i \in 1..Len(data) : data[i].sura = chapter /\ data[i].ayah = v

VerseMapGet(data, chapter, v) ==
    LET hits == {i \in 1..Len(data) : data[i].sura = chapter /\ data[i].ayah = v}
    IN  data[CHOOSE i \in hits : \A j \in hits : j <= i]

\* Mutant: a verse whose body is empty is appended too.
RECURSIVE SegmentsKeepEmpty(_, _, _, _, _, _)
SegmentsKeepEmpty(data, chapter, v, end_verse, use_arabic, use_tamil) ==
    IF v > end_verse THEN <<>>
    ELSE LET item   == VerseMapGet(data, chapter, v)
             arabic == Strip(item.arabic)
             tamil  == Strip(item.tamil_pj)
             lines  == (IF use_arabic /\ arabic # <<>> THEN <<arabic>> ELSE <<>>)
                       \o (IF use_tamil /\ tamil # <<>> THEN <<tamil>> ELSE <<>>)
             body   == Strip(Join(lines, <<"\n">>))
         IN  <<body>>
             \o SegmentsKeepEmpty(data, chapter, v + 1, end_verse, use_arabic,
                                  use_tamil)

\* The loop over range(v, end_verse + 1), once every verse is known to be
\* in verse_map: the non-empty bodies, in ascending verse order.
RECURSIVE Segments(_, _, _, _, _, _)
Segments(data, chapter, v, end_verse, use_arabic, use_tamil) ==
    IF v > end_verse THEN <<>>
    ELSE LET item   == VerseMapGet(data, chapter, v)
             arabic == Strip(item.arabic)
             tamil  == Strip(item.tamil_pj)
             lines  == (IF use_arabic /\ arabic # <<>> THEN <<arabic>> ELSE <<>>)
                       \o (IF use_tamil /\ tamil # <<>> THEN <<tamil>> ELSE <<>>)
             body   == Strip(Join(lines, <<"\n">>))
         IN  (IF body # <<>> THEN <<body>> ELSE <<>>)
             \o Segments(data, chapter, v + 1, end_verse, use_arabic, use_tamil)

\* Mutant: the KeyError of the range path names the start verse, not the
\* verse that is missing.
_build_paste_text_key_of_start(dir, chapter, start_verse, end_verse, use_arabic, use_tamil) ==
    IF start_verse = end_verse
    THEN _get_verse_text(dir, chapter, start_verse, use_arabic, use_tamil)
    ELSE
    LET file    == VerseFile(dir, chapter)
        data    == file.data
        absent  == {v \in start_verse..end_verse : ~VerseMapHas(data, chapter, v)}
        content == Strip(Join(Segments(data, chapter, start_verse, end_verse,
                                       use_arabic, use_tamil), <<"\n", "\n">>))
        suffix  == Suffix(str(chapter) \o <<":">> \o str(start_verse)
                          \o <<"-">> \o str(end_verse))
    IN  IF file.state = "missing" THEN ComposeRaise("FileNotFoundError", <<>>)
        ELSE IF file.state = "corrupt" THEN ComposeRaise("Exception", <<>>)
        ELSE IF absent # {}
             THEN ComposeRaise("KeyError",
                               str(chapter) \o <<":">> \o str(start_verse))
        ELSE IF content # <<>> THEN Composed(content \o suffix)
        ELSE Composed(suffix)

_build_paste_text(dir, chapter, start_verse, end_verse, use_arabic, use_tamil) ==
    IF start_verse = end_verse
    THEN _get_verse_text(dir, chapter, start_verse, use_arabic, use_tamil)
    ELSE
    LET file    == VerseFile(dir, chapter)
        data    == file.data
        absent  == {v \in start_verse..end_verse : ~VerseMapHas(data, chapter, v)}
        first   == CHOOSE v \in absent : \A w \in absent : v <= w
        content == Strip(Join(Segments(data, chapter, start_verse, end_verse,
                                       use_arabic, use_tamil), <<"\n", "\n">>))
        suffix  == Suffix(str(chapter) \o <<":">> \o str(start_verse)
                          \o <<"-">> \o str(end_verse))
    IN  IF file.state = "missing" THEN ComposeRaise("FileNotFoundError", <<>>)
        ELSE IF file.state = "corrupt" THEN ComposeRaise("Exception", <<>>)
        ELSE IF absent # {}
             THEN ComposeRaise("KeyError", str(chapter) \o <<":">> \o str(first))
        ELSE IF content # <<>> THEN Composed(content \o suffix)
        ELSE Composed(suffix)

\* ------------------------------------------------------------------- state
VARIABLES
    alive,             \* the process runs (os._exit has not been called)
    visible,           \* the root window is mapped (not withdrawn)
    paste_pending,     \* self.paste_pending
    last_text_copied,  \* self.last_text_copied
    include_arabic,    \* self.include_arabic
    include_tamil,     \* self.include_tamil
    input_var,         \* self.input_var, the text of the entry
    status_var,        \* self.status_var, the status surface
    clipboard,         \* the system clipboard's text (<<>>: empty)
    settings_file,     \* SETTINGS_PATH on disk
    verses_dir,        \* VERSES_DIR on disk
    after_exit,        \* an after(50, _exit_app) callback is scheduled
    pc,                \* the statement of _on_submit the event loop is in
    frame,             \* _on_submit's locals
    focus_out_last,    \* the handler dispatched last was _on_focus_out
    handler_trace,     \* what else the handler dispatched last did
    attempted,         \* pyautogui.hotkey calls since paste_pending was set
    injected,          \* of these, the calls that returned
    exited,            \* what _exit_app did: its caller, its save, the options
    ref_shape,         \* how the reference under test was written
    ret                \* the value of the call under test

vars ==
    <<alive, visible, paste_pending, last_text_copied, include_arabic,
      include_tamil, input_var, status_var, clipboard, settings_file,
      verses_dir, after_exit, pc, frame, focus_out_last, handler_trace,
      attempted, injected, exited, ref_shape, ret>>

\* handler_trace: "submit_returned" when the last handler was _on_submit and
\* it returned before calling _build_paste_text, "submit_composed" when it
\* called _build_paste_text (and so read VERSES_DIR), "close_raised" when it
\* was _on_close and an exception left it, "none" otherwise.
HandlerTraces == {"none", "submit_returned", "submit_composed", "close_raised"}

\* What _on_submit, _on_focus_out and _prefill_from_clipboard put on the
\* status surface: the message, and the numbers formatted into it.
Status(kind, ch, sv, ev) ==
    [kind |-> kind, chapter |-> ch, start_verse |-> sv, end_verse |-> ev]

NoFrame ==
    [chapter |-> 0, start_verse |-> 0, end_verse |-> 0, text |-> <<>>,
     visible0 |-> TRUE]

\* ---------------------------------------------------------------- settings
SavedSettings(a, t) ==
    [state |-> "ok", include_arabic |-> a, include_tamil |-> t]

AbsentSettings ==
    [state |-> "absent", include_arabic |-> TRUE, include_tamil |-> TRUE]

CorruptSettings ==
    [state |-> "corrupt", include_arabic |-> TRUE, include_tamil |-> TRUE]

\* The ways open(..., "w") and json.dump can end: the file written; open
\* raising (the file is left as it was); the write raising after the file
\* was truncated.
SaveOutcomes == {"ok", "open_error", "write_error"}

\* SETTINGS_PATH after _save_settings ended with outcome o.
_save_settings(file, a, t, o) ==
    CASE o = "ok"          -> SavedSettings(a, t)
      [] o = "open_error"  -> file
      [] o = "write_error" -> CorruptSettings

\* The options after _load_settings: those of a readable file, else the
\* defaults.
_load_settings(file) ==
    IF file.state = "ok"
    THEN [include_arabic |-> file.include_arabic,
          include_tamil |-> file.include_tamil]
    ELSE [include_arabic |-> TRUE, include_tamil |-> TRUE]

\* ----------------------------------------------------------- the environment
\* The verse files of the runs: chapter 1 has verses 1 and 2 (verse 2 with
\* white space around its first text and no second text), chapter 2 has no
\* file, the file of chapter 3 does not load.
VersesDirs ==
    { [c \in {1, 3} |->
        IF c = 1
        THEN [state |-> "ok",
              data |-> << Item(1, 1, <<"a">>, <<"t">>),
                          Item(1, 2, <<" ", "b", "\n">>, <<>>) >>]
        ELSE CorruptFile] }

\* What the user types into the entry.
TypedRefs ==
    { <<" ", "1", ".", "1", "-", "2">>, <<"1", ":", "2", "-", "3">>,
      <<"2", ":", "1">>, <<"3", ":", "1">>, <<"1", ":", "2", "-", "1">>,
      <<"x">> }

InitialClipboards == { <<"1", ":", "2", "\n">>, <<"h", "i">> }

InitialSettingsFiles == { CorruptSettings, SavedSettings(TRUE, FALSE) }

\* The reference under test, when none is: no structure, no call made.
NoShape ==
    [form |-> "none", c |-> 0, v1 |-> 0, c2 |-> 0, v2 |-> 0,
     sep1 |-> ":", sep2 |-> ":", sp |-> FALSE]

NotCalled == [called |-> FALSE, value |-> Raise("")]

\* exited while the process runs.
NotExited ==
    [save |-> "none", via |-> "none", include_arabic |-> TRUE,
     include_tamil |-> TRUE]

\* -------------------------------------------------------------------- Init
\* _prefill_from_clipboard: the entry and the status it leaves.
_prefill_from_clipboard(clip) ==
    LET s == Strip(clip)
    IN  IF s # <<>> /\ _parse_reference(s).ok
        THEN [input_var |-> s,
              status_var |-> Status("Loaded reference from clipboard", 0, 0, 0)]
        ELSE [input_var |-> <<>>, status_var |-> Status("", 0, 0, 0)]

\* The state __init__ and main() leave.
Constructed ==
    /\ alive = TRUE
    /\ visible = TRUE
    /\ paste_pending = FALSE
    /\ last_text_copied = <<>>
    /\ include_arabic = _load_settings(settings_file).include_arabic
    /\ include_tamil = _load_settings(settings_file).include_tamil
    /\ after_exit = FALSE
    /\ pc = "idle"
    /\ frame = NoFrame
    /\ focus_out_last = FALSE
    /\ handler_trace = "none"
    /\ attempted = 0
    /\ injected = 0
    /\ exited = NotExited

Init ==
    /\ verses_dir \in VersesDirs
    /\ settings_file \in InitialSettingsFiles
    /\ clipboard \in InitialClipboards
    /\ input_var = _prefill_from_clipboard(clipboard).input_var
    /\ status_var = _prefill_from_clipboard(clipboard).status_var
    /\ Constructed
    /\ ref_shape = NoShape
    /\ ret = NotCalled

\* ---------------------------------------------------------------- handlers
\* The event loop dispatches an event when the process runs and no handler
\* is executing.
Idle == alive /\ pc = "idle"

\* Never written by the application.
fixed == <<verses_dir, ref_shape, ret>>

\* Written only by _exit_app and _on_close.
exiting == <<alive, settings_file, exited>>

\* The user's options.
options == <<include_arabic, include_tamil>>

\* The hand-off controller's fields and what records its deliveries.
handoff == <<paste_pending, after_exit, attempted, injected>>

\* The user edits the entry (textvariable=self.input_var); the entry and the
\* check buttons can be used while the window is shown.
TypeInput ==
    /\ Idle /\ visible
    /\ \E s \in TypedRefs : input_var' = s
    /\ focus_out_last' = FALSE
    /\ handler_trace' = "none"
    /\ UNCHANGED <<fixed, exiting, options, handoff, visible, last_text_copied,
                   status_var, clipboard, pc, frame>>

\* The user clicks the Arabic check button.
ToggleArabic ==
    /\ Idle /\ visible
    /\ include_arabic' = ~include_arabic
    /\ focus_out_last' = FALSE
    /\ handler_trace' = "none"
    /\ UNCHANGED <<fixed, exiting, handoff, include_tamil, visible,
                   last_text_copied, input_var, status_var, clipboard, pc, frame>>

\* The user clicks the Tamil check button.
ToggleTamil ==
    /\ Idle /\ visible
    /\ include_tamil' = ~include_tamil
    /\ focus_out_last' = FALSE
    /\ handler_trace' = "none"
    /\ UNCHANGED <<fixed, exiting, handoff, include_arabic, visible,
                   last_text_copied, input_var, status_var, clipboard, pc, frame>>

\* Mutant: the clipboard is cleared before the reference is parsed and
\* composed, so a failing submission has already emptied it.
SubmitFailsAfterClear(st) ==
    /\ status_var' = st
    /\ clipboard' = <<>>
    /\ UNCHANGED <<visible, last_text_copied, pc, frame>>

\* _on_submit returns early with a message on the status surface.
SubmitFails(st) ==
    /\ status_var' = st
    /\ UNCHANGED <<visible, last_text_copied, clipboard, pc, frame>>

\* Mutant: the window is withdrawn before the clipboard is written.
SubmitProceedsHideFirst(p, t) ==
    /\ frame' = [chapter |-> p.chapter, start_verse |-> p.start_verse,
                 end_verse |-> p.end_verse, text |-> t, visible0 |-> visible]
    /\ pc' = "clipboard_clear"
    /\ visible' = FALSE
    /\ UNCHANGED <<last_text_copied, clipboard, status_var>>

\* _on_submit has its text and goes on to the clipboard.
SubmitProceeds(p, t) ==
    /\ frame' = [chapter |-> p.chapter, start_verse |-> p.start_verse,
                 end_verse |-> p.end_verse, text |-> t, visible0 |-> visible]
    /\ pc' = "clipboard_clear"
    /\ UNCHANGED <<visible, last_text_copied, clipboard, status_var>>

\* The status _on_submit shows for an exception of _build_paste_text.
ComposeErrorStatus(p, t) ==
    CASE t.err = "FileNotFoundError" ->
             Status("No data for chapter", p.chapter, 0, 0)
      [] t.err = "KeyError" /\ p.start_verse = p.end_verse ->
             Status("Verse not found", p.chapter, p.start_verse, 0)
      [] t.err = "KeyError" /\ p.start_verse # p.end_verse ->
             Status("One or more verses not found", p.chapter, p.start_verse,
                    p.end_verse)
      [] OTHER -> Status("Error", 0, 0, 0)

\* Mutant: the options are not tested before _build_paste_text is called.
OnSubmitUnchecked ==
    /\ Idle
    /\ focus_out_last' = FALSE
    /\ LET ref == Strip(input_var)
           p   == _parse_reference(ref)
           t   == _build_paste_text(verses_dir, p.chapter, p.start_verse,
                                    p.end_verse, include_arabic, include_tamil)
       IN  IF ~p.ok
           THEN /\ SubmitFails(Status(p.err, 0, 0, 0))
                /\ handler_trace' = "submit_returned"
           ELSE /\ handler_trace' = "submit_composed"
                /\ IF ~t.ok THEN SubmitFails(ComposeErrorStatus(p, t))
                   ELSE IF t.text = <<>>
                   THEN SubmitFails(Status("Empty verse text", 0, 0, 0))
                   ELSE SubmitProceeds(p, t.text)
    /\ UNCHANGED <<fixed, exiting, options, handoff, input_var>>

\* _on_submit, from the event to the first clipboard call.
OnSubmit ==
    /\ Idle
    /\ focus_out_last' = FALSE
    /\ LET ref == Strip(input_var)
           p   == _parse_reference(ref)
           t   == _build_paste_text(verses_dir, p.chapter, p.start_verse,
                                    p.end_verse, include_arabic, include_tamil)
       IN  IF ~p.ok
           THEN /\ SubmitFails(Status(p.err, 0, 0, 0))
                /\ handler_trace' = "submit_returned"
           ELSE IF ~include_arabic /\ ~include_tamil
           THEN /\ SubmitFails(Status("Select at least one", 0, 0, 0))
                /\ handler_trace' = "submit_returned"
           ELSE /\ handler_trace' = "submit_composed"
                /\ IF ~t.ok THEN SubmitFails(ComposeErrorStatus(p, t))
                   ELSE IF t.text = <<>>
                   THEN SubmitFails(Status("Empty verse text", 0, 0, 0))
                   ELSE SubmitProceeds(p, t.text)
    /\ UNCHANGED <<fixed, exiting, options, handoff, input_var>>

\* A call inside _on_submit's try block raises: the handler reports it and
\* returns.
ClipboardError ==
    /\ status_var' = Status("Clipboard error", 0, 0, 0)
    /\ pc' = "idle"
    /\ frame' = NoFrame

\* self.root.clipboard_clear()
ClipboardClear ==
    /\ alive /\ pc = "clipboard_clear"
    /\ \/ clipboard' = <<>> /\ pc' = "clipboard_append"
          /\ UNCHANGED <<status_var, frame>>
       \/ ClipboardError /\ UNCHANGED clipboard
    /\ UNCHANGED <<fixed, exiting, options, handoff, visible, last_text_copied,
                   input_var, focus_out_last, handler_trace>>

\* Mutant: the except clause of _on_submit also resets paste_pending.
ClipboardAppendDisarms ==
    /\ alive /\ pc = "clipboard_append"
    /\ \/ clipboard' = clipboard \o frame.text /\ pc' = "update"
          /\ UNCHANGED <<status_var, frame, paste_pending>>
       \/ ClipboardError /\ paste_pending' = FALSE /\ UNCHANGED clipboard
    /\ UNCHANGED <<fixed, exiting, options, after_exit, attempted, injected,
                   visible, last_text_copied, input_var, focus_out_last,
                   handler_trace>>

\* self.root.clipboard_append(text)
ClipboardAppend ==
    /\ alive /\ pc = "clipboard_append"
    /\ \/ clipboard' = clipboard \o frame.text /\ pc' = "update"
          /\ UNCHANGED <<status_var, frame>>
       \/ ClipboardError /\ UNCHANGED clipboard
    /\ UNCHANGED <<fixed, exiting, options, handoff, visible, last_text_copied,
                   input_var, focus_out_last, handler_trace>>

\* self.root.update(); self.last_text_copied = text
UpdateAndStore ==
    /\ alive /\ pc = "update"
    /\ \/ last_text_copied' = frame.text /\ pc' = "arm"
          /\ UNCHANGED <<status_var, frame>>
       \/ ClipboardError /\ UNCHANGED last_text_copied
    /\ UNCHANGED <<fixed, exiting, options, handoff, visible, clipboard,
                   input_var, focus_out_last, handler_trace>>

\* self.paste_pending = True, and the "Copied ..." status.
SubmitArm ==
    /\ alive /\ pc = "arm"
    /\ paste_pending' = TRUE
    /\ status_var' = Status("Copied", frame.chapter, frame.start_verse,
                            frame.end_verse)
    /\ attempted' = 0
    /\ injected' = 0
    /\ pc' = "hide"
    /\ UNCHANGED <<fixed, exiting, options, after_exit, visible,
                   last_text_copied, clipboard, input_var, frame,
                   focus_out_last, handler_trace>>

\* self._hide(): root.withdraw(), whose exception is swallowed; then
\* _on_submit returns.
SubmitHide ==
    /\ alive /\ pc = "hide"
    /\ \/ visible' = FALSE
       \/ UNCHANGED visible
    /\ pc' = "idle"
    /\ frame' = NoFrame
    /\ UNCHANGED <<fixed, exiting, options, handoff, last_text_copied,
                   clipboard, input_var, status_var, focus_out_last,
                   handler_trace>>

\* Mutant: paste_pending is never cleared.
DeliverKeepPending(r) ==
    /\ attempted' = attempted + 1
    /\ IF r = "ok"
       THEN /\ injected' = injected + 1
            /\ status_var' = Status("Pasted", 0, 0, 0)
            /\ after_exit' = TRUE
       ELSE /\ status_var' = Status("Paste failed", 0, 0, 0)
            /\ UNCHANGED <<injected, after_exit>>
    /\ UNCHANGED paste_pending

\* Mutant: paste_pending is cleared in the try body, not in finally, so a
\* failed paste stays pending.
DeliverClearOnSuccess(r) ==
    /\ attempted' = attempted + 1
    /\ IF r = "ok"
       THEN /\ injected' = injected + 1
            /\ status_var' = Status("Pasted", 0, 0, 0)
            /\ after_exit' = TRUE
            /\ paste_pending' = FALSE
       ELSE /\ status_var' = Status("Paste failed", 0, 0, 0)
            /\ UNCHANGED <<injected, after_exit, paste_pending>>

\* Mutant: no exit is scheduled after the paste.
DeliverNoExit(r) ==
    /\ attempted' = attempted + 1
    /\ IF r = "ok"
       THEN /\ injected' = injected + 1
            /\ status_var' = Status("Pasted", 0, 0, 0)
       ELSE /\ status_var' = Status("Paste failed", 0, 0, 0)
            /\ UNCHANGED injected
    /\ UNCHANGED after_exit
    /\ paste_pending' = FALSE

\* _on_focus_out once paste_pending is seen true: the sleep, the hotkey
\* (r: it returns or raises), and the finally clause.
Deliver(r) ==
    /\ attempted' = attempted + 1
    /\ IF r = "ok"
       THEN /\ injected' = injected + 1
            /\ status_var' = Status("Pasted", 0, 0, 0)
            /\ after_exit' = TRUE
       ELSE /\ status_var' = Status("Paste failed", 0, 0, 0)
            /\ UNCHANGED <<injected, after_exit>>
    /\ paste_pending' = FALSE

\* Mutant: the handler does not test paste_pending.
OnFocusOutUnguarded ==
    /\ Idle
    /\ focus_out_last' = TRUE
    /\ handler_trace' = "none"
    /\ \E r \in {"ok", "raise"} : Deliver(r)
    /\ UNCHANGED <<fixed, exiting, options, visible, last_text_copied,
                   clipboard, input_var, pc, frame>>

\* <FocusOut>
OnFocusOut ==
    /\ Idle
    /\ focus_out_last' = TRUE
    /\ handler_trace' = "none"
    /\ IF ~paste_pending
       THEN UNCHANGED <<handoff, status_var>>
       ELSE \E r \in {"ok", "raise"} : Deliver(r)
    /\ UNCHANGED <<fixed, exiting, options, visible, last_text_copied,
                   clipboard, input_var, pc, frame>>

\* Mutant: _exit_app does not call _save_settings.
_exit_app_unsaved(file, o, via) ==
    /\ settings_file' = file
    /\ exited' = [save |-> o, via |-> via, include_arabic |-> include_arabic,
                  include_tamil |-> include_tamil]
    /\ alive' = FALSE
    /\ visible' = FALSE
    /\ paste_pending' = FALSE
    /\ last_text_copied' = <<>>
    /\ include_arabic' = TRUE
    /\ include_tamil' = TRUE
    /\ input_var' = <<>>
    /\ status_var' = Status("", 0, 0, 0)
    /\ after_exit' = FALSE
    /\ focus_out_last' = FALSE
    /\ handler_trace' = "none"
    /\ UNCHANGED <<fixed, clipboard, pc, frame, attempted, injected>>

\* _exit_app, called by handler via on the settings file as it is then: its
\* _save_settings ends with outcome o (an exception is swallowed), then
\* destroy and os._exit(0).  The process is gone: its attributes and its
\* scheduled callbacks no longer exist (they read as before construction),
\* the clipboard and the settings file stay.
_exit_app(file, o, via) ==
    /\ settings_file' = _save_settings(file, include_arabic, include_tamil, o)
    /\ exited' = [save |-> o, via |-> via, include_arabic |-> include_arabic,
                  include_tamil |-> include_tamil]
    /\ alive' = FALSE
    /\ visible' = FALSE
    /\ paste_pending' = FALSE
    /\ last_text_copied' = <<>>
    /\ include_arabic' = TRUE
    /\ include_tamil' = TRUE
    /\ input_var' = <<>>
    /\ status_var' = Status("", 0, 0, 0)
    /\ after_exit' = FALSE
    /\ focus_out_last' = FALSE
    /\ handler_trace' = "none"
    /\ UNCHANGED <<fixed, clipboard, pc, frame, attempted, injected>>

\* <Escape>
OnEscape ==
    /\ Idle
    /\ \E o \in SaveOutcomes : _exit_app(settings_file, o, "Escape")

\* The callback of after(50, self._exit_app).
ExitTimer ==
    /\ Idle
    /\ after_exit
    /\ \E o \in SaveOutcomes : _exit_app(settings_file, o, "Timer")

\* WM_DELETE_WINDOW: _on_close.  Its own _save_settings is not guarded: when
\* it raises, the exception leaves the handler and _exit_app is not called.
OnClose ==
    /\ Idle
    /\ \E o1 \in SaveOutcomes :
         LET file1 == _save_settings(settings_file, include_arabic,
                                     include_tamil, o1)
         IN  IF o1 = "ok"
             THEN \E o2 \in SaveOutcomes : _exit_app(file1, o2, "Close")
             ELSE /\ settings_file' = file1
                  /\ focus_out_last' = FALSE
                  /\ handler_trace' = "close_raised"
                  /\ UNCHANGED <<fixed, options, handoff, alive, exited, visible,
                                 last_text_copied, clipboard, input_var,
                                 status_var, pc, frame>>

Next ==
    \/ TypeInput
    \/ ToggleArabic
    \/ ToggleTamil
    \/ OnSubmit
    \/ ClipboardClear
    \/ ClipboardAppend
    \/ UpdateAndStore
    \/ SubmitArm
    \/ SubmitHide
    \/ OnFocusOut
    \/ OnEscape
    \/ ExitTimer
    \/ OnClose

Spec == Init /\ [][Next]_vars

\* The statements of _on_submit after the event are executed one after the
\* other; a scheduled after() callback is run by the event loop however
\* many other events arrive.
FairSpec ==
    /\ Spec
    /\ WF_vars(ClipboardClear \/ ClipboardAppend \/ UpdateAndStore
               \/ SubmitArm \/ SubmitHide)
    /\ SF_vars(ExitTimer)

\* --------------------------------------- the parser on its own (ParseSpec)
\* The characters of the raw inputs.
Alphabet == {"0", "1", "2", ":", ".", "-", " ", "x"}

RawStrings == UNION {[1..n -> Alphabet] : n \in 0..MaxRawLen}

\* The chapter and verse numbers of the structured inputs: the small ones,
\* and numbers of two and three digits.
Nums == (1..MaxNum) \cup {10, 114, 286}

Seps == {":", "."}

\* The structured inputs: "c:v", "c:v1-v2" and "c:v1-c2:v2", each separator
\* written ":" or ".", with or without blanks around the parts.
Shapes ==
    [form : {"single"}, c : Nums, v1 : Nums, c2 : {0}, v2 : {0},
     sep1 : Seps, sep2 : {":"}, sp : BOOLEAN]
    \cup
    [form : {"range"}, c : Nums, v1 : Nums, c2 : {0}, v2 : Nums,
     sep1 : Seps, sep2 : {":"}, sp : BOOLEAN]
    \cup
    [form : {"full"}, c : Nums, v1 : Nums, c2 : Nums, v2 : Nums,
     sep1 : Seps, sep2 : Seps, sp : BOOLEAN]

RawShape ==
    [form |-> "raw", c |-> 0, v1 |-> 0, c2 |-> 0, v2 |-> 0,
     sep1 |-> ":", sep2 |-> ":", sp |-> FALSE]

\* The text of a structured input.
Render(sh) ==
    LET b    == IF sh.sp THEN <<" ">> ELSE <<>>
        left == str(sh.c) \o <<sh.sep1>> \o b \o str(sh.v1)
    IN  CASE sh.form = "single" -> b \o left
          [] sh.form = "range"  -> left \o b \o <<"-">> \o b \o str(sh.v2)
          [] sh.form = "full"   -> left \o <<"-">> \o b \o str(sh.c2)
                                   \o <<sh.sep2>> \o str(sh.v2) \o b

\* The application as constructed, a reference typed into the entry.
ParseInit ==
    /\ verses_dir \in VersesDirs
    /\ settings_file = CorruptSettings
    /\ clipboard = <<>>
    /\ status_var = Status("", 0, 0, 0)
    /\ Constructed
    /\ \/ ref_shape \in Shapes /\ input_var = Render(ref_shape)
       \/ ref_shape = RawShape /\ input_var \in RawStrings
    /\ ret = NotCalled

\* self._parse_reference(ref) on the text of the entry.
ParseCall ==
    /\ ~ret.called
    /\ ret' = [called |-> TRUE, value |-> _parse_reference(input_var)]
    /\ UNCHANGED <<alive, visible, paste_pending, last_text_copied,
                   include_arabic, include_tamil, input_var, status_var,
                   clipboard, settings_file, verses_dir, after_exit, pc,
                   frame, focus_out_last, handler_trace, attempted, injected,
                   exited, ref_shape>>

ParseNext == ParseCall

ParseSpec == ParseInit /\ [][ParseNext]_vars

\* ------------------------------------- the composer on its own (ComposeSpec)
\* What the file of chapter 1 holds for a verse: nothing; both texts; a
\* first text with white space around it and no second text; a first text
\* of white space only and no second text.
VerseKinds == {"absent", "full", "padded", "blank"}

VerseRecord(v, kind) ==
    CASE kind = "full"   -> Item(1, v, <<"a">> \o str(v), <<"t">> \o str(v))
      [] kind = "padded" -> Item(1, v, <<" ", "b">> \o str(v) \o <<"\n">>, <<>>)
      [] kind = "blank"  -> Item(1, v, <<" ">>, <<>>)

\* The records of verses v..MaxVerse, in the order of the file.
RECURSIVE Records(_, _)
Records(kinds, v) ==
    IF v > MaxVerse THEN <<>>
    ELSE (IF kinds[v] = "absent" THEN <<>> ELSE <<VerseRecord(v, kinds[v])>>)
         \o Records(kinds, v + 1)

\* The verse files: every filling of chapter 1; chapter 2 has no file, the
\* file of chapter 3 does not load.
ComposeDirs ==
    { [c \in {1, 3} |->
         IF c = 1 THEN [state |-> "ok", data |-> Records(kinds, 1)]
         ELSE CorruptFile] : kinds \in [1..MaxVerse -> VerseKinds] }

\* The references composed: every verse and every range of chapter 1, one
\* verse and one range of chapters 2 and 3.
ComposeShapes ==
    { sh \in [form : {"single", "range"}, c : {1, 2, 3}, v1 : 1..MaxVerse,
              c2 : {0}, v2 : 0..MaxVerse, sep1 : {":"}, sep2 : {":"},
              sp : {FALSE}] :
        /\ sh.form = "single" => sh.v2 = 0
        /\ sh.form = "range" => sh.v2 >= sh.v1
        /\ sh.c # 1 => sh.v1 = 1 /\ sh.v2 \in {0, 2} }

\* The application as constructed, with either option on or off, and a
\* reference in the entry.
ComposeInit ==
    /\ verses_dir \in ComposeDirs
    /\ settings_file \in {SavedSettings(a, t) : a, t \in BOOLEAN}
    /\ clipboard = <<>>
    /\ status_var = Status("", 0, 0, 0)
    /\ Constructed
    /\ ref_shape \in ComposeShapes
    /\ input_var = Render(ref_shape)
    /\ ret = NotCalled

\* self._build_paste_text(...) on the parsed text of the entry and the
\* options.
ComposeCall ==
    /\ ~ret.called
    /\ LET p == _parse_reference(Strip(input_var))
       IN  ret' = [called |-> TRUE,
                   value  |-> _build_paste_text(verses_dir, p.chapter,
                                                p.start_verse, p.end_verse,
                                                include_arabic, include_tamil)]
    /\ UNCHANGED <<alive, visible, paste_pending, last_text_copied,
                   include_arabic, include_tamil, input_var, status_var,
                   clipboard, settings_file, verses_dir, after_exit, pc,
                   frame, focus_out_last, handler_trace, attempted, injected,
                   exited, ref_shape>>

\* The reference is then submitted, once.
ComposeSubmit == ret.called /\ handler_trace = "none" /\ OnSubmit

ComposeNext ==
    \/ ComposeCall
    \/ ComposeSubmit
    \/ ClipboardClear
    \/ ClipboardAppend
    \/ UpdateAndStore
    \/ SubmitArm
    \/ SubmitHide

ComposeSpec == ComposeInit /\ [][ComposeNext]_vars

\* ================================================================== claims

\* The step is _on_focus_out handling a notification while paste_pending is
\* false.
FocusOutWhileNotPending == Idle /\ ~paste_pending /\ focus_out_last'

\* C1: a focus-lost notification handled while paste_pending is false does
\* nothing: no hotkey call, no exit scheduled, paste_pending, the clipboard,
\* the status, the payload and the window as they were.
C1_FocusOutNoOp ==
    [][FocusOutWhileNotPending =>
           UNCHANGED <<paste_pending, clipboard, attempted, injected,
                       after_exit, status_var, last_text_copied, visible,
                       alive>>]_vars

\* A notification was just handled with nothing pending since the last
\* arming.
C1_Witness ==
    alive /\ pc = "idle" /\ focus_out_last /\ ~paste_pending /\ attempted = 0

\* C2: between two armings the paste keystroke is injected at most once, and
\* an armed controller has not injected yet: delivering disarms, and only
\* SubmitArm arms again.
C2_AtMostOneInjection ==
    /\ injected <= 1
    /\ attempted <= 1
    /\ paste_pending => injected = 0 /\ attempted = 0

C2_Witness == alive /\ injected = 1 /\ focus_out_last /\ ~paste_pending

\* C3: in a submission that reaches the clipboard, the window is not
\* withdrawn by it before the clipboard holds its text and paste_pending is
\* true: up to the hide step the window is as the handler found it, at the
\* arm step the clipboard already holds the text, at the hide step
\* paste_pending is already true; and when the handler has returned with
\* "Copied", the clipboard holds the payload of an armed controller.
C3_SubmitOrder ==
    /\ pc \in {"clipboard_clear", "clipboard_append", "update", "arm", "hide"}
         => visible = frame.visible0
    /\ pc \in {"arm", "hide"} => clipboard = frame.text
    /\ pc = "hide" => paste_pending /\ last_text_copied = frame.text
    /\ (pc = "idle" /\ status_var.kind = "Copied")
         => paste_pending /\ clipboard = last_text_copied

\* A submission has hidden the window.
C3_Witness ==
    /\ alive /\ pc = "idle" /\ ~visible
    /\ status_var.kind = "Copied"
    /\ paste_pending
    /\ clipboard = last_text_copied /\ clipboard # <<>>

\* C4 as claimed: a submission that arms an armed controller leaves it armed
\* with its own text on the clipboard and in last_text_copied, and whenever
\* the paste is injected the clipboard holds last_text_copied, the payload
\* of the latest successful submission.
C4_LatestPayloadDelivered ==
    [][/\ (pc = "arm" /\ paste_pending)
            => (paste_pending' /\ clipboard' = frame.text
                /\ last_text_copied' = frame.text)
       /\ (injected' = injected + 1) => (clipboard = last_text_copied)]_vars

\* The step is _on_focus_out delivering and the hotkey raising.
PasteFails == Idle /\ paste_pending /\ focus_out_last' /\ injected' = injected

\* C5: when the hotkey raises, paste_pending is set to false, the status
\* reports the failure, the hotkey was called once, and the clipboard is as
\* it was.
C5_PasteFailureHandled ==
    [][PasteFails =>
           /\ ~paste_pending'
           /\ status_var'.kind = "Paste failed"
           /\ attempted' = 1
           /\ clipboard' = clipboard]_vars

C5_Witness ==
    /\ alive /\ ~paste_pending
    /\ status_var.kind = "Paste failed"
    /\ attempted = 1 /\ injected = 0
    /\ clipboard = last_text_copied /\ clipboard # <<>>

\* C6 as claimed: after any delivery attempt, successful or not, the
\* application terminates.
C6_AnyDeliveryExits == (attempted > 0) ~> ~alive

\* C6 as amended: after a successful injection the application terminates;
\* a failed injection schedules no exit.
C6_InjectedExits ==
    /\ (injected > 0) ~> ~alive
    /\ [][PasteFails => after_exit' = after_exit]_vars

\* The process ended by the scheduled callback after a paste.
C6_Witness == ~alive /\ injected = 1 /\ exited.via = "Timer"

\* C7 as claimed: the process never ends with the settings file differing
\* from the options it had.
C7_ExitedSettingsCurrent ==
    ~alive => settings_file = SavedSettings(exited.include_arabic,
                                            exited.include_tamil)

\* C7 as amended: the process ends only through _exit_app, which tries to
\* write the options; when that write succeeds the file holds the options,
\* when open raises the file is what it was before (the options only if
\* _on_close had just written them), when the write raises the file is
\* truncated.
C7_ExitSaveAttempted ==
    ~alive =>
        /\ exited.via \in {"Escape", "Close", "Timer"}
        /\ exited.save \in SaveOutcomes
        /\ exited.save = "ok"
             => settings_file = SavedSettings(exited.include_arabic,
                                              exited.include_tamil)
        /\ exited.save = "write_error" => settings_file = CorruptSettings

\* The scheduled exit ended the process with options that were neither the
\* defaults nor the loaded ones, written to the file.
C7_Witness ==
    /\ ~alive /\ exited.save = "ok" /\ exited.via = "Timer"
    /\ ~exited.include_arabic /\ exited.include_tamil
    /\ settings_file = SavedSettings(FALSE, TRUE)

\* The messages of a submission that failed in _parse_reference or in
\* _build_paste_text.
ParseErrors ==
    {"guidance_range", "guidance_single", "invalid_literal", "unpack",
     "cross_chapter", "range_order"}

ComposeErrors ==
    {"No data for chapter", "Verse not found", "One or more verses not found",
     "Error"}

\* The step is _on_submit reporting such a failure.
SubmitReportsFailure ==
    /\ Idle
    /\ status_var' # status_var
    /\ status_var'.kind \in ParseErrors \cup ComposeErrors

\* C8: a submission that fails in parsing or composition returns at once:
\* the clipboard, the window, paste_pending and last_text_copied are as they
\* were, and nothing is delivered or scheduled.
C8_FailedSubmitFrame ==
    [][SubmitReportsFailure =>
           /\ pc' = "idle"
           /\ UNCHANGED <<clipboard, visible, paste_pending, last_text_copied,
                          attempted, injected, after_exit, alive>>]_vars

\* A composition failure reported by an idle controller that had written
\* nothing.
C8_Witness ==
    /\ alive /\ pc = "idle" /\ visible /\ ~paste_pending
    /\ status_var.kind = "One or more verses not found"
    /\ last_text_copied = <<>> /\ clipboard # <<>>

\* C9: a valid reference, its separators written ":" or ".", parses to the
\* normalized triple: "c:v" to (c, v, v), "c:v1-v2" with v2 >= v1 to
\* (c, v1, v2), "c:v1-c:v2" with v2 >= v1 to (c, v1, v2).
C9_ParseNormalizes ==
    ret.called =>
        /\ ref_shape.form = "single"
             => ret.value = Return(ref_shape.c, ref_shape.v1, ref_shape.v1)
        /\ (ref_shape.form = "range" /\ ref_shape.v2 >= ref_shape.v1)
             => ret.value = Return(ref_shape.c, ref_shape.v1, ref_shape.v2)
        /\ (ref_shape.form = "full" /\ ref_shape.c2 = ref_shape.c
            /\ ref_shape.v2 >= ref_shape.v1)
             => ret.value = Return(ref_shape.c, ref_shape.v1, ref_shape.v2)

\* "114.10-114:286" was parsed.
C9_Witness ==
    /\ ret.called /\ ret.value.ok
    /\ ref_shape.form = "full" /\ ref_shape.sep1 = "." /\ ref_shape.sep2 = ":"
    /\ ref_shape.c = 114 /\ ref_shape.v1 = 10 /\ ref_shape.v2 = 286

\* C10: a range whose right side names another chapter fails with the
\* cross-chapter error, a range of one chapter whose end is below its start
\* fails with the range-order error, and no input at all is returned as a
\* triple whose end is below its start.
C10_ParseRejectsBadRanges ==
    ret.called =>
        /\ (ref_shape.form = "full" /\ ref_shape.c2 # ref_shape.c)
             => ret.value = Raise("cross_chapter")
        /\ (ref_shape.form = "range" /\ ref_shape.v2 < ref_shape.v1)
             => ret.value = Raise("range_order")
        /\ (ref_shape.form = "full" /\ ref_shape.c2 = ref_shape.c
            /\ ref_shape.v2 < ref_shape.v1)
             => ret.value = Raise("range_order")
        /\ ret.value.ok => ret.value.end_verse >= ret.value.start_verse

\* A cross-chapter range whose verses are in order was rejected.
C10_Witness ==
    /\ ret.called /\ ret.value.err = "cross_chapter"
    /\ ref_shape.form = "full" /\ ref_shape.c2 # ref_shape.c
    /\ ref_shape.v2 > ref_shape.v1

\* C11: every triple _parse_reference returns has a chapter and a start
\* verse of at least 1 and an end verse not below the start verse.
C11_ParsedPositive ==
    (ret.called /\ ret.value.ok) =>
        /\ ret.value.chapter >= 1
        /\ ret.value.start_verse >= 1
        /\ ret.value.end_verse >= ret.value.start_verse

\* The text has no chapter/verse separator, or nothing but blanks.
LacksSeparator(s) == ~Contains(s, ":") /\ ~Contains(s, ".")

\* C12: every input that is empty once its blanks are removed, or that has
\* no chapter/verse separator, a range-shaped one such as "5-7" included,
\* fails with one of the two guidance messages ("Please enter chapter:verse
\* like ...").
C12_GuidanceText ==
    (ret.called /\ LacksSeparator(input_var)) =>
        /\ ~ret.value.ok
        /\ ret.value.err \in {"guidance_range", "guidance_single"}

\* The reference composed: its chapter, its first and its last verse.
RefChapter == ref_shape.c

RefStart == ref_shape.v1

RefEnd == IF ref_shape.form = "single" THEN ref_shape.v1 ELSE ref_shape.v2

\* The records the store holds for verse v of the chapter composed.
StoreRecords(v) ==
    IF RefChapter \in DOMAIN verses_dir /\ verses_dir[RefChapter].state = "ok"
    THEN {r \in {verses_dir[RefChapter].data[i] :
                    i \in 1..Len(verses_dir[RefChapter].data)} :
             r.sura = RefChapter /\ r.ayah = v}
    ELSE {}

\* Every verse of the reference is in the store.
AllPresent == \A v \in RefStart..RefEnd : StoreRecords(v) # {}

\* The texts of verse v that the options include, trimmed, the first text
\* before the second, those that are empty left out.
IncludedTexts(v) ==
    LET r == CHOOSE x \in StoreRecords(v) : TRUE
    IN  (IF include_arabic /\ Strip(r.arabic) # <<>>
         THEN <<Strip(r.arabic)>> ELSE <<>>)
        \o (IF include_tamil /\ Strip(r.tamil_pj) # <<>>
            THEN <<Strip(r.tamil_pj)>> ELSE <<>>)

\* " (<label>: c:v)" for one verse, " (<label>: c:s-e)" for a range.
CitationSuffix ==
    <<" ", "(">> \o Label \o <<":", " ">> \o str(RefChapter) \o <<":">>
    \o (IF RefStart = RefEnd THEN str(RefStart)
        ELSE str(RefStart) \o <<"-">> \o str(RefEnd))
    \o <<")">>

EndsWith(t, suf) ==
    /\ Len(t) >= Len(suf)
    /\ SubSeq(t, Len(t) - Len(suf) + 1, Len(t)) = suf

\* C13: when every verse of the reference is in the store,
\* _build_paste_text returns a non-empty text that ends with the citation
\* suffix of the reference, and exactly that suffix when no verse has an
\* included non-empty text.
C13_EndsWithSuffix ==
    (ret.called /\ AllPresent) =>
        /\ ret.value.ok
        /\ ret.value.text # <<>>
        /\ EndsWith(ret.value.text, CitationSuffix)
        /\ (\A v \in RefStart..RefEnd : IncludedTexts(v) = <<>>)
             => ret.value.text = CitationSuffix

\* A range of three verses, all in the store, none with an included text:
\* the text is the suffix alone.
C13_Witness ==
    /\ ret.called /\ AllPresent
    /\ RefStart = 1 /\ RefEnd = 3
    /\ include_arabic /\ ~include_tamil
    /\ ret.value.text = CitationSuffix

\* The group of verse v: its included texts, one line break between them.
Group(v) ==
    LET texts == IncludedTexts(v)
    IN  IF texts = <<>> THEN <<>>
        ELSE IF Len(texts) = 1 THEN texts[1]
        ELSE texts[1] \o <<"\n">> \o texts[2]

\* The groups of verses v..RefEnd that are not empty, in ascending verse
\* order, one blank line between two of them.
RECURSIVE BodyFrom(_)
BodyFrom(v) ==
    IF v > RefEnd THEN <<>>
    ELSE LET g    == Group(v)
             rest == BodyFrom(v + 1)
         IN  IF g = <<>> THEN rest
             ELSE IF rest = <<>> THEN g
             ELSE g \o <<"\n", "\n">> \o rest

\* C14: the text composed for a reference whose verses are all in the store
\* is the groups of its verses, in ascending verse order, followed by the
\* citation suffix: a group is the verse's first text then its second text,
\* each only if included and not empty once trimmed, one line break between
\* them; empty groups are left out; one blank line separates two groups; on
\* the single-verse path as on the range path.
C14_BodyByVerse ==
    (ret.called /\ AllPresent) =>
        ret.value.text = BodyFrom(RefStart) \o CitationSuffix

\* A range of three verses whose second verse has no included text, between
\* two verses that have one.
C14_Witness ==
    /\ ret.called /\ AllPresent
    /\ RefStart = 1 /\ RefEnd = 3
    /\ Group(1) # <<>> /\ Group(2) = <<>> /\ Group(3) # <<>>
    /\ Len(IncludedTexts(1)) = 2
    /\ ret.value.text = BodyFrom(1) \o CitationSuffix

\* The file of the chapter composed exists and loads.
ChapterLoaded ==
    RefChapter \in DOMAIN verses_dir /\ verses_dir[RefChapter].state = "ok"

\* The lowest verse of the reference that the store does not hold.
FirstMissing ==
    CHOOSE v \in RefStart..RefEnd :
        /\ StoreRecords(v) = {}
        /\ \A w \in RefStart..(v - 1) : StoreRecords(w) # {}

\* The step is _on_submit composing a reference of which a verse is missing
\* from a chapter that loads.
SubmitsMissingVerse ==
    /\ ret.called /\ ChapterLoaded /\ ~AllPresent
    /\ pc = "idle" /\ handler_trace = "none"
    /\ handler_trace' = "submit_composed"

\* C15 as claimed: the status shown for a reference with a missing verse
\* names the first missing verse, and no other.
C15_MissingVerseReported ==
    [][SubmitsMissingVerse =>
           /\ status_var'.chapter = RefChapter
           /\ status_var'.start_verse = FirstMissing
           /\ status_var'.end_verse = 0]_vars

\* C15 as amended: when a verse of the reference is missing,
\* _build_paste_text raises KeyError with the key of the first missing
\* verse and returns no text; _on_submit then returns with the clipboard,
\* paste_pending and last_text_copied as they were, and a status that names
\* the verse of a single-verse reference, the requested range of a range.
C15_FirstMissingRaised ==
    /\ []((ret.called /\ ChapterLoaded /\ ~AllPresent) =>
            ret.value = ComposeRaise("KeyError", str(RefChapter) \o <<":">>
                                                 \o str(FirstMissing)))
    /\ [][SubmitsMissingVerse =>
              /\ pc' = "idle"
              /\ UNCHANGED <<clipboard, paste_pending, last_text_copied,
                             visible>>
              /\ status_var' =
                   IF RefStart = RefEnd
                   THEN Status("Verse not found", RefChapter, RefStart, 0)
                   ELSE Status("One or more verses not found", RefChapter,
                               RefStart, RefEnd)]_vars

\* The range 1:1-3 with verse 2 missing between two verses that are there
\* was composed and submitted.
C15_Witness ==
    /\ ret.called /\ handler_trace = "submit_composed" /\ pc = "idle"
    /\ RefChapter = 1 /\ RefStart = 1 /\ RefEnd = 3
    /\ StoreRecords(1) # {} /\ StoreRecords(2) = {} /\ StoreRecords(3) # {}
    /\ ret.value.key = <<"1", ":", "2">>
    /\ status_var.kind = "One or more verses not found"
    /\ clipboard = <<>> /\ ~paste_pending

\* The step is _on_submit running with both options off.
SubmitsWithBothOff ==
    /\ Idle /\ ~include_arabic /\ ~include_tamil
    /\ handler_trace' \in {"submit_returned", "submit_composed"}

\* C16: a submission with both options off returns before
\* _build_paste_text is called: VERSES_DIR is not read, no status of the
\* composer and no text is produced, the clipboard, last_text_copied,
\* paste_pending and the window are as they were.
C16_BothOffRejected ==
    [][SubmitsWithBothOff =>
           /\ handler_trace' = "submit_returned"
           /\ pc' = "idle"
           /\ status_var'.kind \in ParseErrors \cup {"Select at least one"}
           /\ UNCHANGED <<clipboard, last_text_copied, paste_pending, visible,
                          attempted, injected, after_exit>>]_vars

\* A reference that parses was submitted with both options off.
C16_Witness ==
    /\ alive /\ pc = "idle"
    /\ ~include_arabic /\ ~include_tamil
    /\ handler_trace = "submit_returned"
    /\ status_var.kind = "Select at least one"
    /\ ~paste_pending /\ last_text_copied = <<>>

\* The step is _on_focus_out handling a notification while paste_pending is
\* true.
FocusOutWhilePending == Idle /\ paste_pending /\ focus_out_last'

\* C17: the handler of the focus-lost notification schedules the paste and
\* returns: when the event loop has control again the delay is still
\* running, the keystroke has not been injected and the controller is still
\* delivering.
C17_SettleIsScheduled ==
    [][FocusOutWhilePending =>
           /\ pc' = "idle"
           /\ attempted' = attempted
           /\ paste_pending']_vars

\* C18: paste_pending goes from true to false only in a step in which
\* _on_focus_out calls the hotkey, or in which the process ends.
C18_ArmedUntilFocusOut ==
    [][(paste_pending /\ ~paste_pending') =>
           \/ focus_out_last' /\ attempted' = attempted + 1
           \/ ~alive']_vars

\* A submission on an armed controller failed at the clipboard and left it
\* armed.
C18_Witness ==
    /\ alive /\ pc = "idle" /\ paste_pending
    /\ status_var.kind = "Clipboard error"
    /\ attempted = 0

\* C19: whenever the event loop has control and paste_pending is true, the
\* clipboard holds last_text_copied, also after a submission whose
\* clipboard write failed part-way.
C19_ClipboardIsPayload ==
    (alive /\ pc = "idle" /\ paste_pending) => clipboard = last_text_copied

\* C20: no window-close request leaves the process running: _on_close never
\* ends by an exception that skips _exit_app.
C20_CloseTerminates == alive => handler_trace # "close_raised"

====
